---- MODULE Spec2Model ----
(***************************************************************************)
(* Model of the Nadder lexer (src/src/lex.ts, the newLexer / NadderLexer   *)
(* revision): the generic scanner core created by newLexer, the            *)
(* NadderLexer state functions, and the pull-based driver nextToken/next;  *)
(* and of the REPL front-end that reads lines and tokenizes them           *)
(* (src/unnamed/part_003).                                                 *)
(*                                                                         *)
(* A JavaScript string is modelled as a sequence of UTF-16 code units, a   *)
(* code unit as a one-character TLA+ string; the units U+FFFF and the two  *)
(* halves of a surrogate pair are written "ffff", "hi" and "lo".           *)
(***************************************************************************)
EXTENDS Integers, Sequences, FiniteSets, TLC

VARIABLES lexers, indents, pc, out, repl

vars == <<lexers, indents, pc, out, repl>>

(***************************************************************************)
(* Bounds of the model.                                                    *)
(***************************************************************************)
\* longest input drawn from the full alphabet
MaxLen == 3
\* longest input drawn from the indentation alphabet (space, newline, letter, digit)
MaxIndentLen == 6
\* longest input given to two instances at once
MaxTwiceLen == 3
MaxPairLen == 2
MaxCoreLen == 2
MaxCoreLog == 2
\* most line events of one run of the front-end
MaxLines == 3

(***************************************************************************)
(* Character classes (lex.ts 153-156).                                     *)
(***************************************************************************)
alpha ==
  <<"_", "a", "b", "c", "d", "e", "f", "g", "h", "i", "j", "k", "l",
    "m", "n", "o", "p", "q", "r", "s", "t", "u", "v", "w", "x", "y",
    "z", "A", "B", "C", "D", "E", "F", "G", "H", "I", "J", "K", "L",
    "M", "N", "O", "P", "Q", "R", "S", "T", "U", "V", "W", "X", "Y",
    "Z">>

digit ==
  <<"0", "1", "2", "3", "4", "5", "6", "7", "8", "9">>

alphanumeric == alpha \o digit

\* String.fromCharCode(-1): ToUint16(-1) = 0xFFFF, the one-unit string U+FFFF
eof == <<"ffff">>

\* the value of Array.prototype.pop() on an empty array; every relational
\* comparison of a number with it is false (Lt, Gt, StrictEq below)
Undefined == -1

Lt(a, b) == a # Undefined /\ b # Undefined /\ a < b
Gt(a, b) == a # Undefined /\ b # Undefined /\ a > b
StrictEq(a, b) == a = b

\* Array.prototype.pop(): the removed element and the array left behind
PopValue(a) == IF a = <<>> THEN Undefined ELSE a[Len(a)]
PopRest(a) == IF a = <<>> THEN <<>> ELSE SubSeq(a, 1, Len(a) - 1)

HighSurrogates == {"hi"}
LowSurrogates == {"lo"}

(***************************************************************************)
(* JavaScript string primitives used by the scanner.                       *)
(***************************************************************************)
Min(a, b) == IF a < b THEN a ELSE b
Max(a, b) == IF a > b THEN a ELSE b

\* String.prototype.slice(from, to): negative offsets count from the end,
\* offsets are clamped to [0, length], an empty range yields "".
Slice(s, from, to) ==
  LET len == Len(s)
      f == IF from < 0 THEN Max(len + from, 0) ELSE Min(from, len)
      t == IF to < 0 THEN Max(len + to, 0) ELSE Min(to, len)
  IN  IF f < t THEN SubSeq(s, f + 1, t) ELSE <<>>

\* String.fromCodePoint(input.codePointAt(p)) for 0 <= p < length: a high
\* surrogate followed by a low surrogate is one two-unit character.
CodePointAt(s, p) ==
  IF /\ s[p + 1] \in HighSurrogates
     /\ p + 2 <= Len(s)
     /\ s[p + 2] \in LowSurrogates
  THEN <<s[p + 1], s[p + 2]>>
  ELSE <<s[p + 1]>>

\* String.prototype.indexOf(ch): 0-based offset of the first occurrence of
\* the substring ch, or -1.
IndexOf(valid, ch) ==
  LET hits == {k \in 0..(Len(valid) - Len(ch)) :
                 SubSeq(valid, k + 1, k + Len(ch)) = ch}
  IN  IF hits = {} THEN -1 ELSE CHOOSE k \in hits : \A j \in hits : k <= j

\* String.prototype.includes(ch)
Includes(s, ch) == IndexOf(s, ch) >= 0

(***************************************************************************)
(* Scanner core: the closure created by newLexer (lex.ts 184-297).         *)
(* A lexer is a record of the closure variables input, start, pos, width,  *)
(* tokens and state; char and ok hold the value returned by the last       *)
(* nextChar/peek and accept; log is the history of emit/ignore/errorf      *)
(* calls with the cursor at the time of the call.                          *)
(***************************************************************************)
newLexer(input, state) ==
  [input |-> input, start |-> 0, pos |-> 0, width |-> 0, tokens |-> <<>>,
   state |-> state, char |-> <<>>, ok |-> FALSE, log |-> <<>>]

pending(l) == Slice(l.input, l.start, l.pos)

\* emit that pushes the token but forgets to move start up to pos
emitKeepStart(l, t) ==
  LET tok == [type |-> t, value |-> pending(l)]
  IN  [l EXCEPT !.tokens = Append(@, tok),
                !.log = Append(@, [op |-> "emit", tok |-> tok,
                                   start |-> l.start, pos |-> l.pos])]

emit(l, t) ==
  LET tok == [type |-> t, value |-> pending(l)]
  IN  [l EXCEPT !.tokens = Append(@, tok),
                !.start = l.pos,
                !.log = Append(@, [op |-> "emit", tok |-> tok,
                                   start |-> l.start, pos |-> l.pos])]

\* nextChar that steps over the end of the input
nextCharPastEnd(l) ==
  IF l.pos >= Len(l.input)
  THEN [l EXCEPT !.width = 1, !.pos = @ + 1, !.char = eof]
  ELSE LET char == CodePointAt(l.input, l.pos)
       IN  [l EXCEPT !.width = Len(char), !.pos = @ + Len(char), !.char = char]

nextChar(l) ==
  IF l.pos >= Len(l.input)
  THEN [l EXCEPT !.width = 0, !.char = eof]
  ELSE LET char == CodePointAt(l.input, l.pos)
       IN  [l EXCEPT !.width = Len(char), !.pos = @ + Len(char),
                     !.char = char]

ignore(l) ==
  [l EXCEPT !.start = l.pos,
            !.log = Append(@, [op |-> "ignore",
                               tok |-> [type |-> "", value |-> pending(l)],
                               start |-> l.start, pos |-> l.pos])]

backUp(l) == [l EXCEPT !.pos = @ - l.width]

\* peek that does not back up
peekConsuming(l) == nextChar(l)

peek(l) == backUp(nextChar(l))

accept(l, valid) ==
  LET n == nextChar(l)
  IN  IF IndexOf(valid, n.char) >= 0
      THEN [n EXCEPT !.ok = TRUE]
      ELSE [backUp(n) EXCEPT !.ok = FALSE]

RECURSIVE acceptRun(_, _)
acceptRun(l, valid) ==
  LET a == accept(l, valid)
  IN  IF a.ok THEN acceptRun(a, valid) ELSE a

\* errorf that returns undefined without pushing the Illegal token
errorfSilent(l, message) == l

\* errorf pushes the Illegal token; its return value (undefined) is the
\* next state, which the calling state function returns to the driver.
errorf(l, message) ==
  LET tok == [type |-> "Illegal", value |-> message]
  IN  [l EXCEPT !.tokens = Append(@, tok),
                !.log = Append(@, [op |-> "errorf", tok |-> tok,
                                   start |-> l.start, pos |-> l.pos])]

(***************************************************************************)
(* NadderLexer (lex.ts 340-511).                                           *)
(***************************************************************************)
\* own properties of the keywords object
keywords(s) ==
  IF s = <<"d", "e", "f">> THEN "Def"
  ELSE IF s = <<"l", "a", "m", "b", "d", "a">> THEN "Lambda"
  ELSE IF s = <<"l", "e", "t">> THEN "Let"
  ELSE IF s = <<"T", "r", "u", "e">> THEN "True"
  ELSE IF s = <<"F", "a", "l", "s", "e">> THEN "False"
  ELSE IF s = <<"i", "f">> THEN "If"
  ELSE IF s = <<"e", "l", "s", "e">> THEN "Else"
  ELSE IF s = <<"n", "o", "t">> THEN "Not"
  ELSE IF s = <<"r", "e", "t", "u", "r", "n">> THEN "Return"
  ELSE "undefined"

\* properties every plain object inherits from Object.prototype; indexing
\* the keywords object with one of them yields the inherited (truthy) value
ObjectPrototype ==
  { <<"c", "o", "n", "s", "t", "r", "u", "c", "t", "o", "r">>,
    <<"t", "o", "S", "t", "r", "i", "n", "g">>,
    <<"v", "a", "l", "u", "e", "O", "f">>,
    <<"h", "a", "s", "O", "w", "n", "P", "r", "o", "p", "e", "r", "t", "y">>,
    <<"i", "s", "P", "r", "o", "t", "o", "t", "y", "p", "e", "O", "f">>,
    <<"p", "r", "o", "p", "e", "r", "t", "y", "I", "s", "E", "n", "u", "m", "e", "r", "a", "b", "l", "e">>,
    <<"t", "o", "L", "o", "c", "a", "l", "e", "S", "t", "r", "i", "n", "g">>,
    <<"_", "_", "p", "r", "o", "t", "o", "_", "_">>,
    <<"_", "_", "d", "e", "f", "i", "n", "e", "G", "e", "t", "t", "e", "r", "_", "_">>,
    <<"_", "_", "d", "e", "f", "i", "n", "e", "S", "e", "t", "t", "e", "r", "_", "_">>,
    <<"_", "_", "l", "o", "o", "k", "u", "p", "G", "e", "t", "t", "e", "r", "_", "_">>,
    <<"_", "_", "l", "o", "o", "k", "u", "p", "S", "e", "t", "t", "e", "r", "_", "_">> }

\* this.keywords[spelling] || TokenType.Identifier
KeywordOrIdentifier(s) ==
  IF keywords(s) # "undefined" THEN keywords(s)
  ELSE IF s \in ObjectPrototype THEN "Object.prototype"
  ELSE "Identifier"

\* a state function's effect: the scanner after the call, the indentation
\* stack after the call, and the returned next state
\* a state function that pushes its terminal token but goes on to Expression
\* instead of returning undefined
ResultNeverTerminal(l, ind, nextState) ==
  [lexer |-> l, indents |-> ind,
   next |-> IF nextState = "undefined" THEN "lexExpression" ELSE nextState]

Result(l, ind, nextState) == [lexer |-> l, indents |-> ind, next |-> nextState]

\* the for loop of lexIndentation (lex.ts 367-376), i counting down to 0
RECURSIVE DedentLoop(_, _, _, _, _)
DedentLoop(l, ind, indent, prevIndent, i) ==
  IF i < 0
  THEN Result(l, Append(ind, indent), "lexExpression")
  ELSE IF Lt(indent, prevIndent)
  THEN DedentLoop(emit(l, "Dedent"), PopRest(ind), indent, PopValue(ind), i - 1)
  ELSE IF StrictEq(indent, prevIndent)
  THEN Result(l, Append(ind, indent), "lexExpression")
  ELSE Result(errorf(l, <<"inconsistent dedent">>), ind, "undefined")

\* lexIndentation that discards the line's spaces before it emits a Dedent
lexIndentationDiscarding(l, ind) ==
  LET l1 == ignore(acceptRun(l, <<"\n", "\r">>))
      l2 == acceptRun(l1, <<" ">>)
      indent == Len(pending(l2))
      prevIndent == PopValue(ind)
      ind1 == PopRest(ind)
  IN  IF Lt(indent, prevIndent)
      THEN DedentLoop(ignore(l2), ind1, indent, prevIndent, Len(ind1))
      ELSE IF Gt(indent, prevIndent)
      THEN Result(emit(l2, "Indent"), Append(ind1, indent), "lexExpression")
      ELSE Result(l2, Append(ind1, indent), "lexExpression")

\* lexIndentation that does not skip the blank lines
lexIndentationKeepBlank(l, ind) ==
  LET l2 == acceptRun(ignore(l), <<" ">>)
      indent == Len(pending(l2))
      prevIndent == PopValue(ind)
      ind1 == PopRest(ind)
  IN  IF Lt(indent, prevIndent)
      THEN DedentLoop(l2, ind1, indent, prevIndent, Len(ind1))
      ELSE IF Gt(indent, prevIndent)
      THEN Result(emit(l2, "Indent"), Append(ind1, indent), "lexExpression")
      ELSE Result(l2, Append(ind1, indent), "lexExpression")

lexIndentation(l, ind) ==
  LET l1 == ignore(acceptRun(l, <<"\n", "\r">>))
      l2 == acceptRun(l1, <<" ">>)
      indent == Len(pending(l2))
      prevIndent == PopValue(ind)
      ind1 == PopRest(ind)
  IN  IF Lt(indent, prevIndent)
      THEN DedentLoop(l2, ind1, indent, prevIndent, Len(ind1))
      ELSE IF Gt(indent, prevIndent)
      THEN Result(emit(l2, "Indent"), Append(ind1, indent), "lexExpression")
      ELSE Result(l2, Append(ind1, indent), "lexExpression")

\* eatWhiteSpace that accepts the spaces but leaves them pending
eatWhiteSpaceKeep(l) == acceptRun(l, <<" ">>)

\* eatWhiteSpace that also skips '#' characters
eatWhiteSpaceAndHash(l) == ignore(acceptRun(l, <<" ", "#">>))

eatWhiteSpace(l) == ignore(acceptRun(l, <<" ">>))

\* the one-character operators and delimiters of lexExpression's switch
Symbols ==
  [c \in {"+", "-", "*", "/", "<", ">", "(", ")", ",", ":"} |->
     CASE c = "+" -> "Plus"
       [] c = "-" -> "Minus"
       [] c = "*" -> "Asterisk"
       [] c = "/" -> "Slash"
       [] c = "<" -> "LT"
       [] c = ">" -> "GT"
       [] c = "(" -> "LParen"
       [] c = ")" -> "RParen"
       [] c = "," -> "Comma"
       [] c = ":" -> "Colon"]

lexExpression(l, ind) ==
  LET l1 == nextChar(eatWhiteSpace(l))
      char == l1.char
      p == peek(l1)
  IN  IF char = <<"=">>
      THEN IF p.char = <<"=">>
           THEN Result(emit(nextChar(p), "EQ"), ind, "lexExpression")
           ELSE Result(emit(p, "Assign"), ind, "lexExpression")
      ELSE IF char = <<"!">>
      THEN IF p.char = <<"=">>
           THEN Result(emit(nextChar(p), "NEQ"), ind, "lexExpression")
           ELSE Result(errorf(p, <<"expected '=', found '">> \o char \o <<"'">>),
                       ind, "undefined")
      ELSE IF Len(char) = 1 /\ char[1] \in DOMAIN Symbols
      THEN Result(emit(l1, Symbols[char[1]]), ind, "lexExpression")
      ELSE IF char = <<"\n">> \/ char = <<"\r">>
      THEN Result(emit(l1, "Newline"), ind, "lexIndentation")
      ELSE IF char = eof
      THEN Result(emit(l1, "EOF"), ind, "undefined")
      ELSE IF Includes(alpha, char)
      THEN Result(l1, ind, "lexIdentifier")
      ELSE IF Includes(digit, char)
      THEN Result(l1, ind, "lexNumber")
      ELSE Result(errorf(l1, <<"illegal character: '">> \o char \o <<"'">>),
                  ind, "undefined")

\* lexIdentifier that hands over to Indentation in the middle of a line
lexIdentifierToIndentation(l, ind) ==
  LET l1 == acceptRun(accept(l, alpha), alphanumeric)
  IN  Result(emit(l1, KeywordOrIdentifier(pending(l1))), ind, "lexIndentation")

\* lexIdentifier that returns itself instead of lexExpression
lexIdentifierAgain(l, ind) ==
  LET l1 == acceptRun(accept(l, alpha), alphanumeric)
  IN  Result(emit(l1, KeywordOrIdentifier(pending(l1))), ind, "lexIdentifier")

lexIdentifier(l, ind) ==
  LET l1 == acceptRun(accept(l, alpha), alphanumeric)
  IN  Result(emit(l1, KeywordOrIdentifier(pending(l1))), ind, "lexExpression")

\* lexNumber that emits the digit run without looking at what follows it
lexNumberTruncating(l, ind) ==
  Result(emit(acceptRun(l, digit), "Int"), ind, "lexExpression")

lexNumber(l, ind) ==
  LET l1 == acceptRun(l, digit)
      p == peek(l1)
      l2 == nextChar(p)
  IN  IF Includes(alpha, p.char)
      THEN Result(errorf(l2, <<"bad number syntax: '">> \o pending(l2) \o <<"'">>),
                  ind, "undefined")
      ELSE Result(emit(p, "Int"), ind, "lexExpression")

(***************************************************************************)
(* Inputs.                                                                 *)
(***************************************************************************)
\* one representative of every class of code unit the grammar tells apart
Alphabet == {" ", "\n", "\r", "a", "1", "=", "!", ":", "#", "ffff", "hi", "lo"}

\* the units that drive the indentation algorithm
IndentAlphabet == {" ", "\n", "a"}

SeqsUpTo(S, n) == UNION {[1..k -> S] : k \in 0..n}

SymbolsInput ==
  <<"=", "+", "-", "*", "/", "<", ">", "(", ")", ",", ":", " ", "=", "=",
    " ", "!", "=">>

IfBlockInput ==
  <<"i", "f", " ", "T", "r", "u", "e", ":", "\n", " ", " ", " ", " ", "r",
    "e", "t", "u", "r", "n", "\n">>

BadNumberInput ==
  <<"5", "x">>

ProgramInput ==
  <<"l", "e", "t", " ", "f", "i", "v", "e", " ", "=", " ", "5", "\n", "l",
    "e", "t", " ", "t", "e", "n", " ", "=", " ", "1", "0", "\n", "l", "e",
    "t", " ", "a", "d", "d", " ", "=", " ", "l", "a", "m", "b", "d", "a",
    " ", "x", ",", " ", "y", ":", " ", "x", " ", "+", " ", "y", "\n", "\n",
    "d", "e", "f", " ", "a", "d", "d", "_", "1", "0", "(", "x", ")", ":",
    "\n", " ", " ", " ", " ", "r", "e", "t", "u", "r", "n", " ", "a", "d",
    "d", "(", "x", ",", " ", "t", "e", "n", ")", "\n", "\n", "i", "f", " ",
    "n", "o", "t", " ", "5", " ", "<", " ", "1", "0", ":", "\n", " ", " ",
    " ", " ", "r", "e", "t", "u", "r", "n", " ", "T", "r", "u", "e", "\n",
    "e", "l", "s", "e", ":", "\n", " ", " ", " ", " ", "r", "e", "t", "u",
    "r", "n", " ", "F", "a", "l", "s", "e", "\n", "\n", "l", "e", "t", " ",
    "r", "e", "s", "u", "l", "t", " ", "=", " ", "a", "d", "d", "_", "1",
    "0", "(", "f", "i", "v", "e", ")", "\n">>

\* the input of "should balance indents and dedents"
BalanceInput ==
  <<"\n", "d", "e", "f", " ", "f", "o", "o", "(", ")", ":", "\n", "\n",
    " ", " ", " ", " ", "i", "f", " ", "T", "r", "u", "e", ":", "\n", " ",
    " ", " ", " ", " ", " ", " ", " ", "b", "a", "r", "\n", " ", " ", " ",
    " ", "e", "l", "s", "e", ":", "\n", " ", " ", " ", " ", " ", " ", " ",
    " ", "b", "a", "z", "\n">>

\* an identifier spelled like a property every plain object inherits
ConstructorInput ==
  <<"c", "o", "n", "s", "t", "r", "u", "c", "t", "o", "r">>

\* the inputs of test/lex.spec.ts and of the specification's examples
TestInputs ==
  {SymbolsInput, IfBlockInput, BadNumberInput, ProgramInput, BalanceInput,
   ConstructorInput}

Inputs == SeqsUpTo(Alphabet, MaxLen) \cup SeqsUpTo(IndentAlphabet, MaxIndentLen)
            \cup TestInputs

(***************************************************************************)
(* Instances.  new NadderLexer(input) creates a scanner closure and a      *)
(* fresh indentation array; indents maps an array reference to the array.  *)
(***************************************************************************)
\* one array object shared by every instance
SharedArray(i) == 1

\* the array literal [0] of the constructor evaluates to a new array object
\* for every instance: the reference held by instance i
NewArray(i) == i

NadderLexer(input) == newLexer(input, "lexIndentation")

\* the front-end when repl.start has not been called: no readline interface,
\* nothing buffered, nothing written
NoRepl ==
  [prevLines |-> <<>>, prompt |-> <<>>, output |-> <<>>, closed |-> TRUE,
   lines |-> <<>>, received |-> <<>>, evaluated |-> <<>>]

Construct(insts, inputOf) ==
  /\ lexers = [i \in insts |-> NadderLexer(inputOf[i])]
  /\ indents = [r \in {NewArray(i) : i \in insts} |-> <<0>>]
  /\ pc = [i \in insts |-> "run"]
  /\ out = [i \in insts |-> <<>>]
  /\ repl = NoRepl

Init == \E input \in Inputs : Construct({1}, [i \in {1} |-> input])

\* the same input tokenized by two fresh instances
TwiceAlphabet == {" ", "\n", "a", "1", "!"}

TwiceInputs == SeqsUpTo(TwiceAlphabet, MaxTwiceLen)

InitTwice == \E input \in TwiceInputs : Construct({1, 2}, [i \in {1, 2} |-> input])

\* two fresh instances, each over an input of its own
PairAlphabet == {" ", "\n", "a", "1"}

PairInputs == SeqsUpTo(PairAlphabet, MaxPairLen)

\* the inputs of the other instance: lines of words at different widths
OtherInputs == SeqsUpTo({" ", "a"}, MaxPairLen)

InitPair ==
  \E input1 \in PairInputs, input2 \in OtherInputs :
    Construct({1, 2}, [i \in {1, 2} |-> IF i = 1 THEN input1 ELSE input2])

(***************************************************************************)
(* Driver: nextToken (lex.ts 205-215) called through next (283-289) by a   *)
(* consumer that iterates until next reports done.  pc[i] is "run" while   *)
(* the consumer is iterating, "done" after next reported done, "thrown"    *)
(* after nextToken threw "Bad lexer state!".                               *)
(***************************************************************************)
\* nextToken that returns the queue head without removing it
nextTokenReplay(i) ==
  /\ pc[i] = "run"
  /\ Len(lexers[i].tokens) > 0
  /\ LET tok == Head(lexers[i].tokens)
     IN  /\ out' = [out EXCEPT ![i] = Append(@, tok)]
         /\ pc' = [pc EXCEPT ![i] = IF tok.type = "EOF" THEN "done" ELSE "run"]
  /\ UNCHANGED <<lexers, indents, repl>>

\* tokens.shift() and the result of next(): done iff the token is EOF
nextToken(i) ==
  /\ pc[i] = "run"
  /\ Len(lexers[i].tokens) > 0
  /\ LET tok == Head(lexers[i].tokens)
     IN  /\ lexers' = [lexers EXCEPT ![i].tokens = Tail(@)]
         /\ out' = [out EXCEPT ![i] = Append(@, tok)]
         /\ pc' = [pc EXCEPT ![i] = IF tok.type = "EOF" THEN "done" ELSE "run"]
  /\ UNCHANGED <<indents, repl>>

\* the cursor kept in one variable that every scanner closure shares
InvokeSharedCursor(i, fn, r) ==
  /\ pc[i] = "run"
  /\ Len(lexers[i].tokens) = 0
  /\ lexers[i].state = fn
  /\ lexers' = [j \in DOMAIN lexers |->
                  IF j = i THEN [r.lexer EXCEPT !.state = r.next]
                  ELSE [lexers[j] EXCEPT !.pos = r.lexer.pos]]
  /\ indents' = [indents EXCEPT ![NewArray(i)] = r.indents]
  /\ UNCHANGED <<pc, out, repl>>

\* state = state(lexer) for the state function named fn
Invoke(i, fn, r) ==
  /\ pc[i] = "run"
  /\ Len(lexers[i].tokens) = 0
  /\ lexers[i].state = fn
  /\ lexers' = [lexers EXCEPT ![i] = [r.lexer EXCEPT !.state = r.next]]
  /\ indents' = [indents EXCEPT ![NewArray(i)] = r.indents]
  /\ UNCHANGED <<pc, out, repl>>

RunLexIndentation(i) ==
  Invoke(i, "lexIndentation", lexIndentation(lexers[i], indents[NewArray(i)]))

RunLexExpression(i) ==
  Invoke(i, "lexExpression", lexExpression(lexers[i], indents[NewArray(i)]))

RunLexIdentifier(i) ==
  Invoke(i, "lexIdentifier", lexIdentifier(lexers[i], indents[NewArray(i)]))

RunLexNumber(i) ==
  Invoke(i, "lexNumber", lexNumber(lexers[i], indents[NewArray(i)]))

\* throw "Bad lexer state!"
BadLexerState(i) ==
  /\ pc[i] = "run"
  /\ Len(lexers[i].tokens) = 0
  /\ lexers[i].state = "undefined"
  /\ pc' = [pc EXCEPT ![i] = "thrown"]
  /\ UNCHANGED <<lexers, indents, out, repl>>

Next ==
  \/ \E i \in DOMAIN lexers : nextToken(i)
  \/ \E i \in DOMAIN lexers : RunLexIndentation(i)
  \/ \E i \in DOMAIN lexers : RunLexExpression(i)
  \/ \E i \in DOMAIN lexers : RunLexIdentifier(i)
  \/ \E i \in DOMAIN lexers : RunLexNumber(i)
  \/ \E i \in DOMAIN lexers : BadLexerState(i)

Spec == Init /\ [][Next]_vars

\* two instances over the same input, their next() calls interleaved freely
SpecTwice == InitTwice /\ [][Next]_vars

\* two instances over any two inputs, their next() calls interleaved freely
SpecPair == InitPair /\ [][Next]_vars

(***************************************************************************)
(* The generic core on its own: a client calls the primitives of the       *)
(* object newLexer returns (lex.ts 296) in any order.  pc[i] records the   *)
(* last cursor primitive: "read" after a nextChar, "backed" after a backUp *)
(* that followed a nextChar, "fresh" otherwise; "broken" after a backUp    *)
(* that did not follow a nextChar, "brokenTwice" when that backUp followed *)
(* another backUp, "hung" inside an acceptRun that never returns.  The     *)
(* client stops after a broken call and cannot go on from a hung one.      *)
(***************************************************************************)
CoreAlphabet == {"a", " ", "hi", "lo"}

CoreInputs == SeqsUpTo(CoreAlphabet, MaxCoreLen)

\* the valid arguments of accept and acceptRun: any string, here a letter,
\* two characters, and a two-unit code point followed by U+FFFF
CoreValid == {<<"a">>, <<" ", "a">>, <<"hi", "lo", "ffff">>}

CoreLive == {"fresh", "read", "backed"}

InitCore ==
  \E input \in CoreInputs :
    /\ lexers = [i \in {1} |-> newLexer(input, "undefined")]
    /\ indents = [r \in {NewArray(1)} |-> <<0>>]
    /\ pc = [i \in {1} |-> "fresh"]
    /\ out = [i \in {1} |-> <<>>]
    /\ repl = NoRepl

\* one call of a primitive by the client: the scanner becomes l, the last
\* cursor primitive p
CoreCall(i, l, p) ==
  /\ pc[i] \in CoreLive
  /\ lexers' = [lexers EXCEPT ![i] = l]
  /\ pc' = [pc EXCEPT ![i] = p]
  /\ UNCHANGED <<indents, out, repl>>

CoreNextChar(i) == CoreCall(i, nextChar(lexers[i]), "read")

CoreBackUp(i) ==
  CoreCall(i, backUp(lexers[i]),
           IF pc[i] = "read" THEN "backed"
           ELSE IF pc[i] = "backed" THEN "brokenTwice"
           ELSE "broken")

CorePeek(i) == CoreCall(i, peek(lexers[i]), "backed")

CoreAccept(i) ==
  \E valid \in CoreValid :
    LET l == accept(lexers[i], valid)
    IN  CoreCall(i, l, IF l.ok THEN "read" ELSE "backed")

\* the loop of acceptRun, `while (accept(valid)) {}`, followed as long as
\* the cursor moves.  It ends in the scanner of the accept that failed
\* (ok = FALSE), which is where acceptRun returns, or in the scanner of an
\* accept that returned true without moving the cursor (ok = TRUE): every
\* later iteration repeats that one, so the call never returns.
RECURSIVE acceptRunLoop(_, _)
acceptRunLoop(l, valid) ==
  LET a == accept(l, valid)
  IN  IF a.ok /\ a.pos > l.pos THEN acceptRunLoop(a, valid) ELSE a

\* a call of acceptRun by the client; the client of a call that never
\* returns is stuck in it ("hung")
CoreAcceptRun(i) ==
  \E valid \in CoreValid :
    LET r == acceptRunLoop(lexers[i], valid)
    IN  CoreCall(i, r, IF r.ok THEN "hung" ELSE "backed")

CoreIgnore(i) ==
  /\ Len(lexers[i].log) < MaxCoreLog
  /\ CoreCall(i, ignore(lexers[i]), "fresh")

CoreEmit(i) ==
  /\ Len(lexers[i].log) < MaxCoreLog
  /\ CoreCall(i, emit(lexers[i], "Identifier"), "fresh")

CoreErrorf(i) ==
  /\ Len(lexers[i].log) < MaxCoreLog
  /\ CoreCall(i, errorf(lexers[i], <<"message">>), pc[i])

NextCore ==
  \/ \E i \in DOMAIN lexers : CoreNextChar(i)
  \/ \E i \in DOMAIN lexers : CoreBackUp(i)
  \/ \E i \in DOMAIN lexers : CorePeek(i)
  \/ \E i \in DOMAIN lexers : CoreAccept(i)
  \/ \E i \in DOMAIN lexers : CoreAcceptRun(i)
  \/ \E i \in DOMAIN lexers : CoreIgnore(i)
  \/ \E i \in DOMAIN lexers : CoreEmit(i)
  \/ \E i \in DOMAIN lexers : CoreErrorf(i)

(***************************************************************************)
(* The class variant of the core, Lexer<T> (lex.ts 546-656): nextChar      *)
(* reads one string unit and advances by this.width, which the constructor *)
(* sets to 1 and only the end of input sets to 0.  Its client calls        *)
(* nextChar, and backUp right after a nextChar.                            *)
(***************************************************************************)
LexerConstructor(input) == [newLexer(input, "undefined") EXCEPT !.width = 1]

LexerNextChar(l) ==
  IF l.pos >= Len(l.input)
  THEN [l EXCEPT !.width = 0, !.char = eof]
  ELSE [l EXCEPT !.char = <<l.input[l.pos + 1]>>, !.pos = @ + l.width]

LexerBackUp(l) == [l EXCEPT !.pos = @ - l.width]

ClassLive == {"classFresh", "classRead"}

InitClass ==
  \E input \in CoreInputs :
    /\ lexers = [i \in {1} |-> LexerConstructor(input)]
    /\ indents = [r \in {NewArray(1)} |-> <<0>>]
    /\ pc = [i \in {1} |-> "classFresh"]
    /\ out = [i \in {1} |-> <<>>]
    /\ repl = NoRepl

ClassNextChar(i) ==
  /\ pc[i] \in ClassLive
  /\ lexers' = [lexers EXCEPT ![i] = LexerNextChar(lexers[i])]
  /\ pc' = [pc EXCEPT ![i] = "classRead"]
  /\ UNCHANGED <<indents, out, repl>>

ClassBackUp(i) ==
  /\ pc[i] = "classRead"
  /\ lexers' = [lexers EXCEPT ![i] = LexerBackUp(lexers[i])]
  /\ pc' = [pc EXCEPT ![i] = "classFresh"]
  /\ UNCHANGED <<indents, out, repl>>

NextClass ==
  \/ \E i \in DOMAIN lexers : ClassNextChar(i)
  \/ \E i \in DOMAIN lexers : ClassBackUp(i)

\* a NadderLexer driven by its consumer, or one of the two variants of the
\* generic core driven by a client of its primitives
SpecCore ==
  (Init \/ InitCore \/ InitClass) /\ [][Next \/ NextCore \/ NextClass]_vars

(***************************************************************************)
(* The REPL front-end (src/unnamed/part_003).  start creates a readline    *)
(* interface, shows the primary prompt and handles line and close events.  *)
(* repl holds the handler's variable prevLines, the prompt set with        *)
(* rl.setPrompt, what was written to the output stream, and the history of *)
(* the run: lines is every line event so far, received the lines since the *)
(* last evaluation, evaluated the texts given to evaluate with the lines   *)
(* each was built from.                                                    *)
(***************************************************************************)
primaryPrompt == <<">", ">", ">", " ">>

secondaryPrompt == <<".", ".", ".", " ">>

\* the result of the state function the scanner's state names
StateFn(l, ind) ==
  CASE l.state = "lexIndentation" -> lexIndentation(l, ind)
    [] l.state = "lexExpression" -> lexExpression(l, ind)
    [] l.state = "lexIdentifier" -> lexIdentifier(l, ind)
    [] l.state = "lexNumber" -> lexNumber(l, ind)

\* the scanner after the driver has run it, alone, to its Terminal state
RECURSIVE RunToEnd(_, _)
RunToEnd(l, ind) ==
  IF l.state = "undefined" THEN l
  ELSE LET r == StateFn(l, ind)
       IN  RunToEnd([r.lexer EXCEPT !.state = r.next], r.indents)

\* lex.tokenize(input) as Array.from collects it: the tokens a scanner over
\* input pushes, in order, up to its terminal token; the iterator reports
\* done with the EOF token, which is not collected, and ends after an
\* Illegal token
tokenize(input) ==
  LET ts == RunToEnd(NadderLexer(input), <<0>>).tokens
  IN  SelectSeq(ts, LAMBDA tok : tok.type # "EOF")

\* the decision of isComplete about the tokens of its input
isCompleteTokens(tokens) ==
  IF Len(tokens) = 0
  THEN TRUE
  ELSE LET lastToken == tokens[Len(tokens)]
       IN  tokens[1].type # "Indent" /\ lastToken.type # "Colon"

isComplete(input) == isCompleteTokens(tokenize(input))

evaluate(input) == tokenize(input)

\* print: one entry for every token, "error: " and the message for an
\* Illegal token, the value and the name of the type for any other
print(tokens) ==
  [k \in 1..Len(tokens) |->
     IF tokens[k].type = "Illegal"
     THEN <<"error: ">> \o tokens[k].value
     ELSE <<tokens[k].value, tokens[k].type>>]

\* the lines a user types: empty, blank, a word, a block header, and the
\* same indented, and lines with a lexical error
ReplLines ==
  {<<>>, <<" ">>, <<"a">>, <<"a", ":">>, <<" ", "a">>, <<" ", "a", ":">>,
   <<"!">>, <<" ", "!">>}

\* start: the interface is created, the primary prompt set and shown
InitRepl ==
  /\ repl = [prevLines |-> <<>>, prompt |-> primaryPrompt,
             output |-> <<primaryPrompt>>, closed |-> FALSE,
             lines |-> <<>>, received |-> <<>>, evaluated |-> <<>>]
  /\ lexers = <<>>
  /\ indents = <<>>
  /\ pc = <<>>
  /\ out = <<>>

\* the handler that forgets the buffered lines when it evaluates
LineHandlerLastLineOnly(line) ==
  LET input == line \o <<"\n">>
  IN  IF isComplete(line)
      THEN [repl EXCEPT
              !.output = @ \o <<print(evaluate(input)), primaryPrompt>>,
              !.prevLines = <<>>,
              !.prompt = primaryPrompt,
              !.lines = Append(@, line),
              !.received = <<>>,
              !.evaluated = Append(@, [text |-> input,
                                       lines |-> Append(repl.received, line)])]
      ELSE [repl EXCEPT
              !.output = Append(@, secondaryPrompt),
              !.prevLines = repl.prevLines \o line \o <<"\n", "\n">>,
              !.prompt = secondaryPrompt,
              !.lines = Append(@, line),
              !.received = Append(@, line)]

\* the "line" handler (part_003 25-39): the front-end after the event
LineHandler(line) ==
  LET input == repl.prevLines \o line \o <<"\n">>
  IN  IF isComplete(line)
      THEN [repl EXCEPT
              !.output = @ \o <<print(evaluate(input)), primaryPrompt>>,
              !.prevLines = <<>>,
              !.prompt = primaryPrompt,
              !.lines = Append(@, line),
              !.received = <<>>,
              !.evaluated = Append(@, [text |-> input,
                                       lines |-> Append(repl.received, line)])]
      ELSE [repl EXCEPT
              !.output = Append(@, secondaryPrompt),
              !.prevLines = input \o <<"\n">>,
              !.prompt = secondaryPrompt,
              !.lines = Append(@, line),
              !.received = Append(@, line)]

\* a line event
OnLine ==
  \E line \in ReplLines :
    /\ ~repl.closed
    /\ Len(repl.lines) < MaxLines
    /\ repl' = LineHandler(line)
    /\ UNCHANGED <<lexers, indents, pc, out>>

\* the close event: the input stream has ended
OnClose ==
  /\ ~repl.closed
  /\ repl' = [repl EXCEPT !.output = Append(@, <<"\n">>), !.closed = TRUE]
  /\ UNCHANGED <<lexers, indents, pc, out>>

NextRepl ==
  \/ OnLine
  \/ OnClose

SpecRepl == InitRepl /\ [][NextRepl]_vars

(***************************************************************************)
(* Vocabulary of the properties.                                           *)
(***************************************************************************)
Insts == DOMAIN lexers

IsTerminal(tok) == tok.type \in {"EOF", "Illegal"}

IsPush(e) == e.op \in {"emit", "errorf"}

IsSpan(e) == e.op \in {"emit", "ignore"}

LogTokens(log) == [k \in 1..Len(log) |-> log[k].tok]

\* the tokens pushed to the queue so far by emit and errorf, in order
Pushed(i) == LogTokens(SelectSeq(lexers[i].log, IsPush))

Last(s) == s[Len(s)]

Count(s, P(_)) == Cardinality({k \in 1..Len(s) : P(s[k])})

IsIndent(tok) == tok.type = "Indent"

IsDedent(tok) == tok.type = "Dedent"

TerminalCount(i) == Count(Pushed(i), IsTerminal)

RECURSIVE Concat(_)
Concat(ss) == IF ss = <<>> THEN <<>> ELSE Head(ss) \o Concat(Tail(ss))

\* the step is an invocation of a state function of instance i
IsInvoke(i) ==
  /\ pc[i] = "run"
  /\ Len(lexers[i].tokens) = 0
  /\ lexers[i].state # "undefined"
  /\ lexers'[i] # lexers[i]

\* the stream of instance i has ended with the EOF token
EndedInEOF(i) == Pushed(i) # <<>> /\ Last(Pushed(i)).type = "EOF"

\* the terminal-token bookkeeping of instance i's pushed tokens
C1_OneTerminalState ==
  \A i \in Insts :
    /\ TerminalCount(i) <= 1
    /\ (TerminalCount(i) = 1) <=> (lexers[i].state = "undefined")
    /\ TerminalCount(i) = 1 => IsTerminal(Last(Pushed(i)))
    /\ pc[i] # "run" => TerminalCount(i) = 1

(***************************************************************************)
(* C1: the pushed tokens contain at most one terminal token (EOF or        *)
(* Illegal), a terminal token is the last token pushed, the state is       *)
(* Terminal exactly when a terminal token has been pushed, from then on    *)
(* no state function runs or emits (the scanner changes only by tokens     *)
(* leaving the queue), and a consumer that stopped has seen exactly one    *)
(* terminal token pushed.                                                  *)
(***************************************************************************)
C1_TerminalIsLast ==
  /\ []C1_OneTerminalState
  /\ [][\A i \in Insts :
          lexers[i].state = "undefined" =>
            /\ [lexers'[i] EXCEPT !.tokens = <<>>] = [lexers[i] EXCEPT !.tokens = <<>>]
            /\ indents'[NewArray(i)] = indents[NewArray(i)]]_vars

\* a run that pushed several tokens, ended them with its terminal token,
\* and whose consumer went on to the end of the stream
C1_Witness ==
  \E i \in Insts :
    /\ Len(Pushed(i)) >= 3
    /\ IsTerminal(Last(Pushed(i)))
    /\ lexers[i].state = "undefined"
    /\ pc[i] # "run"

\* the driver's variant: unread input weighted over the rank of the state
Rank(state) ==
  CASE state = "undefined" -> 0
    [] state = "lexExpression" -> 1
    [] OTHER -> 2

Variant(l) == 3 * (Len(l.input) - l.pos) + Rank(l.state)

StateNames == {"lexIndentation", "lexExpression", "lexIdentifier", "lexNumber"}

C2_DriverState ==
  \A i \in Insts :
    /\ Variant(lexers[i]) >= 0
    /\ lexers[i].state \in StateNames \cup {"undefined"}
    /\ pc[i] # "run" =>
         /\ out[i] # <<>>
         /\ IsTerminal(Last(out[i]))
         /\ lexers[i].tokens = <<>>
         /\ (\A k \in 1..Len(Pushed(i)) : Pushed(i)[k].type # "Illegal")
              => Last(out[i]).type = "EOF"

(***************************************************************************)
(* C2: the driver terminates.  Every state-function invocation strictly    *)
(* decreases the variant 3 * (unread input) + rank(state), which is never  *)
(* negative; an invocation of Expression consumes at least one code unit   *)
(* or makes the machine Terminal; the loop always has a step to take while *)
(* the consumer iterates; and when the consumer has stopped, the last      *)
(* token returned is terminal, EOF if no lexical error was pushed.         *)
(***************************************************************************)
C2_DriverTerminates ==
  /\ []C2_DriverState
  /\ [][\A i \in Insts :
          IsInvoke(i) =>
            /\ Variant(lexers'[i]) < Variant(lexers[i])
            /\ lexers[i].state = "lexExpression" =>
                 \/ lexers'[i].pos > lexers[i].pos
                 \/ lexers'[i].state = "undefined"]_vars

\* a run of many Expression visits that returned its EOF token
C2_Witness ==
  \E i \in Insts :
    /\ pc[i] = "done"
    /\ Len(out[i]) >= 4
    /\ Last(out[i]).type = "EOF"
    /\ Len(lexers[i].input) >= 4

(***************************************************************************)
(* C3: a consumer that calls next() until it reports done never reaches    *)
(* the driver's "Bad lexer state!" abort, whether the stream ends in EOF   *)
(* or in Illegal.                                                          *)
(***************************************************************************)
C3_ConsumerNeverAborts == \A i \in Insts : pc[i] # "thrown"

\* the value of start when log entry k's operation has returned
StartAfter(l, k) == IF k < Len(l.log) THEN l.log[k + 1].start ELSE l.start

(***************************************************************************)
(* C4: every token pushed by emit has the value input[start, pos) of the   *)
(* cursor at the moment of emission, and emit leaves start = pos: the      *)
(* next emit or ignore (or the scanner now) starts where this token ended. *)
(***************************************************************************)
C4_EmitValueIsPendingSpan ==
  \A i \in Insts :
    \A k \in 1..Len(lexers[i].log) :
      LET e == lexers[i].log[k]
      IN  e.op = "emit" =>
            /\ 0 <= e.start /\ e.start <= e.pos /\ e.pos <= Len(lexers[i].input)
            /\ e.tok.value = SubSeq(lexers[i].input, e.start + 1, e.pos)
            /\ StartAfter(lexers[i], k) = e.pos

\* an Indent carrying its space run, then a Dedent, then another token
C4_Witness ==
  \E i \in Insts :
    \E j, k, m \in 1..Len(Pushed(i)) :
      /\ j < k /\ k < m
      /\ Pushed(i)[j].type = "Indent" /\ Len(Pushed(i)[j].value) >= 2
      /\ Pushed(i)[k].type = "Dedent"
      /\ Pushed(i)[m].type = "Identifier"

\* the emitted values and the ignored spans, concatenated in order
Spans(l) == LET s == SelectSeq(l.log, IsSpan)
            IN  Concat([k \in 1..Len(s) |-> s[k].tok.value])

(***************************************************************************)
(* C5: when the stream ends in EOF, the values of the emitted tokens and   *)
(* the spans discarded by ignore, concatenated in order, are the input,    *)
(* and start = pos = len(input).                                           *)
(***************************************************************************)
C5_SpansReproduceInput ==
  \A i \in Insts :
    EndedInEOF(i) =>
      /\ Spans(lexers[i]) = lexers[i].input
      /\ lexers[i].start = Len(lexers[i].input)
      /\ lexers[i].pos = Len(lexers[i].input)

(***************************************************************************)
(* C6: at every prefix of the pushed tokens the number of Dedent tokens    *)
(* is at most the number of Indent tokens.                                 *)
(***************************************************************************)
C6_DedentsNeverExceedIndents ==
  \A i \in Insts :
    \A n \in 0..Len(Pushed(i)) :
      Count(SubSeq(Pushed(i), 1, n), IsDedent) <= Count(SubSeq(Pushed(i), 1, n), IsIndent)

(***************************************************************************)
(* C7: when EOF has been emitted (no Illegal token), the number of Indent  *)
(* tokens equals the number of Dedent tokens.                              *)
(***************************************************************************)
C7_BalancedAtEOF ==
  \A i \in Insts :
    EndedInEOF(i) => Count(Pushed(i), IsIndent) = Count(Pushed(i), IsDedent)

IsPrefix(s, t) == Len(s) <= Len(t) /\ SubSeq(t, 1, Len(s)) = s

(***************************************************************************)
(* C8: two fresh instances over the same input produce the same tokens:    *)
(* at any moment one instance's returned tokens are a prefix of the        *)
(* other's, and when both consumers have stopped the returned and the      *)
(* pushed sequences are equal (tags, values, order, terminal token).       *)
(***************************************************************************)
C8_SameInputSameTokens ==
  \A i, j \in Insts :
    lexers[i].input = lexers[j].input =>
      /\ IsPrefix(out[i], out[j]) \/ IsPrefix(out[j], out[i])
      /\ (pc[i] # "run" /\ pc[j] # "run") =>
           /\ out[i] = out[j]
           /\ Pushed(i) = Pushed(j)
           /\ pc[i] = pc[j]

\* both instances finished an input that opens a block and closes it
C8_Witness ==
  /\ Insts = {1, 2}
  /\ pc[1] # "run" /\ pc[2] # "run"
  /\ Len(out[1]) >= 3
  /\ \E k \in 1..Len(out[1]) : out[1][k].type = "Indent"
  /\ \E k \in 1..Len(out[2]) : out[2][k].type = "Dedent"

IfBlockTokens ==
  <<[type |-> "If", value |-> <<"i", "f">>],
     [type |-> "True", value |-> <<"T", "r", "u", "e">>],
     [type |-> "Colon", value |-> <<":">>],
     [type |-> "Newline", value |-> <<"\n">>],
     [type |-> "Indent", value |-> <<" ", " ", " ", " ">>],
     [type |-> "Return", value |-> <<"r", "e", "t", "u", "r", "n">>],
     [type |-> "Newline", value |-> <<"\n">>],
     [type |-> "Dedent", value |-> <<>>],
     [type |-> "EOF", value |-> <<>>]>>

\* the width of the last line the Indentation state processed
LastLineWidth(i) == Last(indents[NewArray(i)])

\* the stated example: the tokens returned for IfBlockInput
C10_IfBlockExample ==
  \A i \in Insts :
    (lexers[i].input = IfBlockInput /\ pc[i] # "run") => out[i] = IfBlockTokens

(***************************************************************************)
(* C10: the input "if True:\n    return\n" yields If, True, Colon,         *)
(* Newline, Indent("    "), Return, Newline, Dedent(""), EOF; and, for     *)
(* every input, when the last line processed is at column 0 (a line at     *)
(* column 0 or the end of input after a trailing newline) every block      *)
(* opened by an Indent has got its Dedent when EOF is emitted.             *)
(***************************************************************************)
C10_BlockGetsItsDedent ==
  /\ C10_IfBlockExample
  /\ \A i \in Insts :
       (EndedInEOF(i) /\ LastLineWidth(i) = 0) =>
         Count(Pushed(i), IsDedent) >= Count(Pushed(i), IsIndent)

\* the emit and ignore entries of a log
Emits(log) == SelectSeq(log, LAMBDA e : e.op = "emit")

\* the tags of the tokens made of operator and delimiter characters
OperatorTags == {Symbols[c] : c \in DOMAIN Symbols} \cup {"Assign", "EQ", "NEQ"}

\* the spelling an operator or delimiter token must have
OperatorValue(tag) ==
  IF tag = "Assign" THEN <<"=">>
  ELSE IF tag = "EQ" THEN <<"=", "=">>
  ELSE IF tag = "NEQ" THEN <<"!", "=">>
  ELSE <<CHOOSE c \in DOMAIN Symbols : Symbols[c] = tag>>

\* the tokens test/lex.spec.ts expects for SymbolsInput, and the final EOF
SymbolsTokens ==
  <<[type |-> "Assign", value |-> <<"=">>],
    [type |-> "Plus", value |-> <<"+">>],
    [type |-> "Minus", value |-> <<"-">>],
    [type |-> "Asterisk", value |-> <<"*">>],
    [type |-> "Slash", value |-> <<"/">>],
    [type |-> "LT", value |-> <<"<">>],
    [type |-> "GT", value |-> <<">">>],
    [type |-> "LParen", value |-> <<"(">>],
    [type |-> "RParen", value |-> <<")">>],
    [type |-> "Comma", value |-> <<",">>],
    [type |-> "Colon", value |-> <<":">>],
    [type |-> "EQ", value |-> <<"=", "=">>],
    [type |-> "NEQ", value |-> <<"!", "=">>],
    [type |-> "EOF", value |-> <<>>]>>

\* the tokens returned for the input of "should lex symbols correctly"
C11_SymbolsExample ==
  \A i \in Insts :
    (lexers[i].input = SymbolsInput /\ pc[i] # "run") => out[i] = SymbolsTokens

\* unit p of the input (1-based) lies before the start of the pending span
Resolved(l, p) == p \in 1..Len(l.input) /\ p <= l.start

(***************************************************************************)
(* C11: each of = + - * / < > ( ) , : is emitted as its own token with the *)
(* matching tag and the character as value, "==" as EQ and "!=" as NEQ;    *)
(* the spaces between tokens are discarded and produce no token.  The      *)
(* input "=+-*/<>(),: == !=" yields Assign, Plus, Minus, Asterisk, Slash,  *)
(* LT, GT, LParen, RParen, Comma, Colon, EQ, NEQ.                          *)
(***************************************************************************)
C11_OperatorsAndSpaces ==
  /\ C11_SymbolsExample
  /\ \A i \in Insts :
       LET l == lexers[i]
           es == Emits(l.log)
       IN  \* an operator token is spelled as its tag says
           /\ \A k \in 1..Len(es) :
                es[k].tok.type \in OperatorTags =>
                  es[k].tok.value = OperatorValue(es[k].tok.type)
           \* a one-character operator the scanner has passed is its own token
           /\ \A p \in 1..Len(l.input) :
                (Resolved(l, p) /\ l.input[p] \in DOMAIN Symbols) =>
                  \E k \in 1..Len(es) :
                    /\ es[k].start = p - 1
                    /\ es[k].pos = p
                    /\ es[k].tok = [type |-> Symbols[l.input[p]],
                                    value |-> <<l.input[p]>>]
           \* "=" is an Assign of its own or one half of an EQ or a NEQ
           /\ \A p \in 1..Len(l.input) :
                (Resolved(l, p) /\ l.input[p] = "=") =>
                  \E k \in 1..Len(es) :
                    /\ es[k].start < p /\ p <= es[k].pos
                    /\ es[k].tok.type \in {"Assign", "EQ", "NEQ"}
           \* a space the scanner has passed is ignored or is indentation
           /\ \A p \in 1..Len(l.input) :
                (Resolved(l, p) /\ l.input[p] = " ") =>
                  \E k \in 1..Len(l.log) :
                    /\ l.log[k].start < p /\ p <= l.log[k].pos
                    /\ \/ l.log[k].op = "ignore"
                       \/ /\ l.log[k].op = "emit"
                          /\ l.log[k].tok.type \in {"Indent", "Dedent"}

\* the symbols test has run to its end, spaces ignored along the way
C11_Witness ==
  \E i \in Insts :
    /\ lexers[i].input = SymbolsInput
    /\ pc[i] = "done"
    /\ \E k \in 1..Len(lexers[i].log) :
         /\ lexers[i].log[k].op = "ignore"
         /\ lexers[i].log[k].tok.value = <<" ">>

(***************************************************************************)
(* The lines the Indentation state has processed, read off the log: every  *)
(* call of lexIndentation starts with ignore() (lex.ts 359), at the start  *)
(* of the input and right after a Newline token, and the span of the entry *)
(* that follows is the line's run of spaces.                               *)
(***************************************************************************)
IndentationStarts(log) ==
  {k \in 1..Len(log) :
     /\ log[k].op = "ignore"
     /\ k = 1 \/ (log[k - 1].op = "emit" /\ log[k - 1].tok.type = "Newline")}

\* the log index of the n-th call of lexIndentation
LineStart(log, n) ==
  CHOOSE k \in IndentationStarts(log) :
    Cardinality({j \in IndentationStarts(log) : j < k}) = n - 1

\* the indentation width of the line whose call starts at log index k
LineWidth(l, k) ==
  IF k < Len(l.log) THEN l.log[k + 1].pos - l.log[k + 1].start
  ELSE l.pos - l.start

\* the indentation widths of the lines processed so far, in order
LineWidths(l) ==
  [n \in 1..Cardinality(IndentationStarts(l.log)) |->
     LineWidth(l, LineStart(l.log, n))]

\* the tokens the call starting at log index k pushed
StepTokens(log, k) ==
  LET m == CHOOSE j \in k..Len(log) :
             /\ \A x \in (k + 1)..j : IsPush(log[x])
             /\ j = Len(log) \/ ~IsPush(log[j + 1])
  IN  [x \in 1..(m - k) |-> log[k + x].tok]

\* the indentation stack of the algorithm lexIndentation cites (lex.ts
\* 354-355) after lines of these widths: a greater width is pushed, a
\* smaller one pops down to the equal entry; <<>> once a width smaller than
\* the top equals no entry
RECURSIVE IndentationStack(_)
IndentationStack(ws) ==
  IF ws = <<>> THEN <<0>>
  ELSE LET s == IndentationStack(SubSeq(ws, 1, Len(ws) - 1))
           w == Last(ws)
       IN  IF s = <<>> THEN <<>>
           ELSE IF w > Last(s) THEN Append(s, w)
           ELSE IF \E j \in 1..Len(s) : s[j] = w
           THEN SubSeq(s, 1, CHOOSE j \in 1..Len(s) : s[j] = w)
           ELSE <<>>

\* the stack before the n-th line
StackBefore(l, n) == IndentationStack(SubSeq(LineWidths(l), 1, n - 1))

NumLines(l) == Cardinality(IndentationStarts(l.log))

(***************************************************************************)
(* C12: when the indentation stack holds two nested levels above 0 and the *)
(* next line (or the end of input after a newline) is at column 0, that    *)
(* one Indentation step emits exactly two consecutive Dedent tokens, right *)
(* before the following token, and the stack returns to [0].               *)
(***************************************************************************)
C12_TwoLevelsTwoDedents ==
  \A i \in Insts :
    LET l == lexers[i]
    IN  \A n \in 1..NumLines(l) :
          (Len(StackBefore(l, n)) = 3 /\ LineWidths(l)[n] = 0) =>
            LET ts == StepTokens(l.log, LineStart(l.log, n))
            IN  /\ Len(ts) = 2
                /\ IsDedent(ts[1]) /\ IsDedent(ts[2])
                /\ n = NumLines(l) => indents[NewArray(i)] = <<0>>

\* the tokens pushed so far according to the log of scanner l
PushedOf(l) == LogTokens(SelectSeq(l.log, IsPush))

IsUnitOf(valid, u) == \E k \in 1..Len(valid) : valid[k] = u

\* the cursor after the maximal digit run that starts at cursor p
RECURSIVE DigitRunEnd(_, _)
DigitRunEnd(input, p) ==
  IF p < Len(input) /\ IsUnitOf(digit, input[p + 1])
  THEN DigitRunEnd(input, p + 1)
  ELSE p

\* a letter or underscore is the unit at cursor p
LetterAt(input, p) == p < Len(input) /\ IsUnitOf(alpha, input[p + 1])

BadNumberTokens ==
  <<[type |-> "Illegal", value |-> <<"bad number syntax: '", "5", "x", "'">>]>>

\* the stated example: "5x" yields one Illegal token and nothing else
C13_BadNumberExample ==
  \A i \in Insts :
    lexers[i].input = BadNumberInput =>
      /\ Pushed(i) \in {<<>>, BadNumberTokens}
      /\ pc[i] # "run" =>
           /\ out[i] = BadNumberTokens
           /\ lexers[i].state = "undefined"
           /\ lexers[i].tokens = <<>>

\* an Int token is a whole digit run that no letter, underscore or digit
\* follows
C13_IntIsMaximal ==
  \A i \in Insts :
    LET l == lexers[i]
        es == Emits(l.log)
    IN  \A k \in 1..Len(es) :
          es[k].tok.type = "Int" =>
            /\ es[k].pos > es[k].start
            /\ \A p \in (es[k].start + 1)..es[k].pos : IsUnitOf(digit, l.input[p])
            /\ ~LetterAt(l.input, es[k].pos)
            /\ DigitRunEnd(l.input, es[k].start) = es[k].pos

(***************************************************************************)
(* C13: a maximal digit run immediately followed by a letter or underscore *)
(* yields an Illegal token reporting bad number syntax, and no Int token   *)
(* for the digit prefix; the input "5x" yields a single Illegal token as   *)
(* the only token of the stream and the scanner is Terminal afterwards.    *)
(***************************************************************************)
C13_BadNumberSyntax ==
  /\ [](C13_BadNumberExample /\ C13_IntIsMaximal)
  /\ [][\A i \in Insts :
          (IsInvoke(i) /\ lexers[i].state = "lexNumber") =>
            LET l == lexers[i]
                q == DigitRunEnd(l.input, l.pos)
            IN  IF LetterAt(l.input, q)
                THEN /\ PushedOf(lexers'[i]) =
                          Append(PushedOf(l),
                                 [type |-> "Illegal",
                                  value |-> <<"bad number syntax: '">>
                                            \o Slice(l.input, l.start, q + 1)
                                            \o <<"'">>])
                     /\ lexers'[i].state = "undefined"
                ELSE /\ PushedOf(lexers'[i]) =
                          Append(PushedOf(l),
                                 [type |-> "Int",
                                  value |-> Slice(l.input, l.start, q)])
                     /\ lexers'[i].state = "lexExpression"]_vars

\* the stream of "5x" has been returned and the consumer's next call threw
C13_Witness ==
  \E i \in Insts :
    /\ lexers[i].input = BadNumberInput
    /\ out[i] = BadNumberTokens
    /\ lexers[i].state = "undefined"
    /\ pc[i] = "thrown"

\* width w is smaller than the top of stack s and equal to none of its entries
IsInconsistent(s, w) ==
  /\ s # <<>>
  /\ w < Last(s)
  /\ \A j \in 1..Len(s) : s[j] # w

(***************************************************************************)
(* C14: a line whose indentation width is smaller than the stack top and   *)
(* equal to no width on the indentation stack makes the Indentation step   *)
(* end with an Illegal token with message "inconsistent dedent" and a      *)
(* Terminal state; no expression token of that line is ever emitted.       *)
(***************************************************************************)
C14_InconsistentDedent ==
  \A i \in Insts :
    LET l == lexers[i]
    IN  \A n \in 1..NumLines(l) :
          IsInconsistent(StackBefore(l, n), LineWidths(l)[n]) =>
            LET ts == StepTokens(l.log, LineStart(l.log, n))
            IN  /\ ts # <<>>
                /\ Last(ts) = [type |-> "Illegal",
                               value |-> <<"inconsistent dedent">>]
                /\ Last(PushedOf(l)) = Last(ts)
                /\ l.state = "undefined"

\* the cursor after the maximal run of units of valid that starts at cursor p
RECURSIVE RunEnd(_, _, _)
RunEnd(input, p, valid) ==
  IF p < Len(input) /\ IsUnitOf(valid, input[p + 1])
  THEN RunEnd(input, p + 1, valid)
  ELSE p

\* the indentation width of the line an Indentation step at cursor p meets:
\* the spaces that follow the run of newline characters
NextLineWidth(input, p) ==
  LET q == RunEnd(input, p, <<"\n", "\r">>)
  IN  RunEnd(input, q, <<" ">>) - q

Spaces(w) == [k \in 1..w |-> " "]

\* the tokens scanner l2 has pushed beyond those of l1
NewTokens(l1, l2) ==
  SubSeq(PushedOf(l2), Len(PushedOf(l1)) + 1, Len(PushedOf(l2)))

(***************************************************************************)
(* C15 as stated: every Dedent token has the empty string as its value,    *)
(* for every dedent target width (w = 0 and w > 0 alike) and for each of   *)
(* the Dedent tokens one line causes.                                      *)
(***************************************************************************)
C15_DedentValueEmpty ==
  \A i \in Insts :
    \A k \in 1..Len(Pushed(i)) :
      IsDedent(Pushed(i)[k]) => Pushed(i)[k].value = <<>>

(***************************************************************************)
(* C15 amended: a Dedent token's value is the text pending when it is      *)
(* emitted.  The first Dedent a line causes carries that line's run of w   *)
(* spaces, which is the empty string only for w = 0; a further Dedent of   *)
(* the same Indentation step is empty.                                     *)
(***************************************************************************)
C15_DedentValueIsSpaceRun ==
  [][\A i \in Insts :
       (IsInvoke(i) /\ lexers[i].state = "lexIndentation") =>
         LET l == lexers[i]
             w == NextLineWidth(l.input, l.pos)
             new == NewTokens(l, lexers'[i])
         IN  \A j \in 1..Len(new) :
               IsDedent(new[j]) =>
                 new[j].value = IF j = 1 THEN Spaces(w) ELSE <<>>]_vars

\* a Dedent to a width above 0 and a Dedent to width 0 have been returned
C15_Witness ==
  \E i \in Insts :
    /\ \E k \in 1..Len(out[i]) :
         IsDedent(out[i][k]) /\ out[i][k].value = Spaces(4)
    /\ \E k \in 1..Len(out[i]) :
         IsDedent(out[i][k]) /\ out[i][k].value = <<>>

\* the unit at cursor p of the input is u
UnitAt(input, p, u) == p < Len(input) /\ input[p + 1] = u

\* the message of the Illegal token for a '!' that no '=' follows
ExpectedEqual == <<"expected '=', found '", "!", "'">>

(***************************************************************************)
(* C16: a '!' that is not immediately followed by '=' (another character   *)
(* or the end of input follows) yields an Illegal token and a Terminal     *)
(* state; no token is emitted for the '!' and nothing after it is          *)
(* tokenized.  A '!' immediately followed by '=' yields exactly one NEQ    *)
(* token with value "!=".                                                  *)
(***************************************************************************)
C16_BangNeedsEqual ==
  [][\A i \in Insts :
       LET l == lexers[i]
           p == RunEnd(l.input, l.pos, <<" ">>)
           new == NewTokens(l, lexers'[i])
       IN  /\ (IsInvoke(i) /\ l.state = "lexExpression" /\ UnitAt(l.input, p, "!")) =>
                IF UnitAt(l.input, p + 1, "=")
                THEN /\ new = <<[type |-> "NEQ", value |-> <<"!", "=">>]>>
                     /\ lexers'[i].start = p + 2
                     /\ lexers'[i].pos = p + 2
                     /\ lexers'[i].state = "lexExpression"
                ELSE /\ new = <<[type |-> "Illegal", value |-> ExpectedEqual]>>
                     /\ lexers'[i].state = "undefined"
           \* after that Illegal token nothing more is pushed
           /\ (PushedOf(l) # <<>> /\ Last(PushedOf(l)).value = ExpectedEqual) =>
                /\ new = <<>>
                /\ lexers'[i].pos = l.pos]_vars

\* both cases have happened: "!=" returned as NEQ, a lone '!' as Illegal
C16_Witness ==
  \E i \in Insts :
    /\ pc[i] = "thrown"
    /\ Len(out[i]) >= 2
    /\ out[i][1] = [type |-> "NEQ", value |-> <<"!", "=">>]
    /\ Last(out[i]) = [type |-> "Illegal", value |-> ExpectedEqual]

\* the tokens lexIdentifier emitted: those whose text starts with a letter
\* or an underscore
IsWord(e) ==
  /\ e.op = "emit"
  /\ e.pos > e.start
  /\ e.tok.type \notin {"Illegal", "EOF"}
  /\ e.tok.value # <<>>
  /\ IsUnitOf(alpha, e.tok.value[1])

(***************************************************************************)
(* C17: an identifier lexeme is the maximal run of letters, digits and     *)
(* underscores that starts at a letter or underscore; its tag is the       *)
(* keyword tag iff its spelling is one of the nine keys of the keyword     *)
(* table and Identifier for every other spelling, the names a plain        *)
(* JavaScript object inherits (constructor, toString, valueOf) included.   *)
(***************************************************************************)
C17_KeywordOrIdentifier ==
  \A i \in Insts :
    LET l == lexers[i]
    IN  /\ \A k \in 1..Len(l.log) :
             IsWord(l.log[k]) =>
               LET e == l.log[k]
               IN  /\ e.tok.value = Slice(l.input, e.start, e.pos)
                   /\ RunEnd(l.input, e.start, alphanumeric) = e.pos
                   /\ e.tok.type = IF keywords(e.tok.value) # "undefined"
                                   THEN keywords(e.tok.value)
                                   ELSE "Identifier"
        /\ \A p \in 1..Len(l.input) :
             (Resolved(l, p) /\ IsUnitOf(alpha, l.input[p])) =>
               \E k \in 1..Len(l.log) :
                 /\ IsWord(l.log[k])
                 /\ l.log[k].start < p /\ p <= l.log[k].pos

\* the code point at cursor p is one the grammar has a rule for: an operator
\* or delimiter, '!', a newline character, a space, a letter, an underscore
\* or a digit
IsRecognized(char) ==
  /\ Len(char) = 1
  /\ \/ char[1] \in DOMAIN Symbols \cup {"=", "!", "\n", "\r", " "}
     \/ IsUnitOf(alphanumeric, char[1])

IllegalCharacter(char) ==
  [type |-> "Illegal", value |-> <<"illegal character: '">> \o char \o <<"'">>]

(***************************************************************************)
(* C18: any character reaching the Expression state that no rule           *)
(* recognizes yields an Illegal token whose message contains exactly that  *)
(* code point, the state becomes Terminal, and the scanner does not skip   *)
(* the character and resynchronize: no token derived from later input is   *)
(* ever emitted.                                                           *)
(***************************************************************************)
C18_IllegalCharacter ==
  [][\A i \in Insts :
       LET l == lexers[i]
           p == RunEnd(l.input, l.pos, <<" ">>)
           char == CodePointAt(l.input, p)
           new == NewTokens(l, lexers'[i])
       IN  /\ (/\ IsInvoke(i)
               /\ l.state = "lexExpression"
               /\ p < Len(l.input)
               /\ ~IsRecognized(char)) =>
                /\ new = <<IllegalCharacter(char)>>
                /\ lexers'[i].state = "undefined"
           \* after the Illegal token nothing more is pushed
           /\ (PushedOf(l) # <<>> /\ Last(PushedOf(l)).type = "Illegal") =>
                /\ new = <<>>
                /\ lexers'[i].pos = l.pos]_vars

(***************************************************************************)
(* C19: the EOF token is emitted only when the cursor has reached the end  *)
(* of the input (pos = len(input)) and its value is the empty string, for  *)
(* every input, those that contain the character U+FFFF (the value of the  *)
(* end-of-input sentinel) included.                                        *)
(***************************************************************************)
C19_EOFOnlyAtEnd ==
  \A i \in Insts :
    LET l == lexers[i]
    IN  \A k \in 1..Len(l.log) :
          (l.log[k].op = "emit" /\ l.log[k].tok.type = "EOF") =>
            /\ l.log[k].pos = Len(l.input)
            /\ l.log[k].tok.value = <<>>

\* instance i takes part in the step
Moves(i) == <<lexers[i], pc[i], out[i]>> # <<lexers'[i], pc'[i], out'[i]>>

\* nextToken would find the queue empty and no state function to run
AtBadLexerState(i) ==
  /\ pc[i] = "run"
  /\ lexers[i].tokens = <<>>
  /\ lexers[i].state = "undefined"

\* the abort happens only after the terminal token has been returned
C20_AbortAfterTerminal ==
  \A i \in Insts :
    /\ (pc[i] = "thrown" \/ AtBadLexerState(i)) =>
         /\ out[i] # <<>>
         /\ IsTerminal(Last(out[i]))
    /\ (lexers[i].state = "undefined" /\ pc[i] = "run" /\ ~AtBadLexerState(i)) =>
         /\ Len(lexers[i].tokens) >= 1
         /\ IsTerminal(Last(lexers[i].tokens))

(***************************************************************************)
(* C20: nextToken called with an empty queue and a Terminal state aborts   *)
(* by throwing "Bad lexer state!": it returns no token and does not loop.  *)
(* With the NadderLexer grammar the state never becomes Terminal without   *)
(* an EOF or Illegal token pushed in the same state invocation, so the     *)
(* abort is unreachable up to and including the retrieval of the terminal  *)
(* token.                                                                  *)
(***************************************************************************)
C20_BadLexerState ==
  /\ []C20_AbortAfterTerminal
  /\ [][\A i \in Insts :
          /\ (AtBadLexerState(i) /\ Moves(i)) =>
               /\ pc'[i] = "thrown"
               /\ out'[i] = out[i]
               /\ lexers'[i] = lexers[i]
          /\ pc[i] = "thrown" => ~Moves(i)
          /\ (IsInvoke(i) /\ lexers'[i].state = "undefined") =>
               LET new == NewTokens(lexers[i], lexers'[i])
               IN  /\ new # <<>>
                   /\ IsTerminal(Last(new))
                   /\ Last(lexers'[i].tokens) = Last(new)]_vars

\* the consumer went on after the Illegal token of "#" and nextToken threw
C20_Witness ==
  \E i \in Insts :
    /\ pc[i] = "thrown"
    /\ out[i] = <<IllegalCharacter(<<"#">>)>>
    /\ lexers[i].tokens = <<>>

\* the tokens an instance over this input pushes when it runs alone
AloneTokens(input) == PushedOf(RunToEnd(NadderLexer(input), <<0>>))

\* each instance returns what it returns alone, and the two hold different
\* array objects
C21_AsWhenAlone ==
  /\ \A i, j \in Insts : i # j => NewArray(i) # NewArray(j)
  /\ \A i \in Insts :
       /\ IsPrefix(out[i], AloneTokens(lexers[i].input))
       /\ pc[i] # "run" => out[i] = AloneTokens(lexers[i].input)

(***************************************************************************)
(* C21: two NadderLexer instances share no mutable state.  Under any       *)
(* interleaving of next() calls on two instances, over equal or different  *)
(* inputs, each instance returns exactly the token sequence it returns     *)
(* when run alone, and its cursor, queue and indentation stack are changed *)
(* only by its own calls.                                                  *)
(***************************************************************************)
C21_InstancesAreIndependent ==
  /\ []C21_AsWhenAlone
  /\ [][\A i, j \in Insts :
          (i # j /\ Moves(i)) =>
            /\ lexers'[j] = lexers[j]
            /\ indents'[NewArray(j)] = indents[NewArray(j)]
            /\ out'[j] = out[j]
            /\ pc'[j] = pc[j]]_vars

\* two instances over different inputs, one stopped while the other is in
\* the middle of its run, both having changed their indentation stacks
C21_Witness ==
  /\ Insts = {1, 2}
  /\ lexers[1].input # lexers[2].input
  /\ pc[1] = "done" /\ pc[2] = "run"
  /\ out[2] # <<>>
  /\ indents[NewArray(1)] # indents[NewArray(2)]
  /\ \E k \in 1..Len(out[1]) : out[1][k].type = "Indent"

OffsetsInRange(l) ==
  /\ 0 <= l.start /\ l.start <= l.pos /\ l.pos <= Len(l.input)
  /\ \A k \in 1..Len(l.log) :
       /\ 0 <= l.log[k].start
       /\ l.log[k].start <= l.log[k].pos
       /\ l.log[k].pos <= Len(l.input)

(***************************************************************************)
(* C23: in every reachable state of a NadderLexer over any input,          *)
(* 0 <= start <= pos <= len(input); for the generic core the same holds    *)
(* after any sequence of primitives in which backUp is called only         *)
(* immediately after a nextChar, with no emit or ignore in between.  (That *)
(* a second consecutive backUp can break start <= pos is the state         *)
(* C23_Witness describes.)                                                 *)
(***************************************************************************)
C23_OffsetsInRange ==
  \A i \in Insts :
    pc[i] \notin {"broken", "brokenTwice"} => OffsetsInRange(lexers[i])

\* nextChar, backUp and a second backUp have left pos in front of start
C23_Witness ==
  \E i \in Insts :
    /\ pc[i] = "brokenTwice"
    /\ lexers[i].input # <<>>
    /\ lexers[i].pos < lexers[i].start

\* the array holds numbers that strictly increase from 0 at the bottom
IsIndentationStack(s) ==
  /\ s # <<>>
  /\ s[1] = 0
  /\ \A k \in 1..(Len(s) - 1) : s[k] < s[k + 1]

\* the step is an invocation of lexIndentation by instance i
IsIndentationStep(i) == IsInvoke(i) /\ lexers[i].state = "lexIndentation"

(***************************************************************************)
(* C24: whenever an Indentation step completes without error, the          *)
(* indentation stack is non-empty, its bottom entry is 0, its entries      *)
(* strictly increase from bottom to top and its top is the width of the    *)
(* space run of the line just processed (whitespace-only lines included);  *)
(* the stack is never popped while empty.                                  *)
(***************************************************************************)
C24_StackShape ==
  /\ [](\A i \in Insts : IsIndentationStack(indents[NewArray(i)]))
  /\ [][\A i \in Insts :
          IsIndentationStep(i) =>
            LET l == lexers[i]
                s == indents[NewArray(i)]
                w == NextLineWidth(l.input, l.pos)
            IN  /\ lexers'[i].state # "undefined" =>
                     Last(indents'[NewArray(i)]) = w
                \* pop() at lex.ts 364 and, on a dedent, again at lex.ts 369
                /\ Len(s) >= 1
                /\ w < Last(s) => Len(s) >= 2]_vars

(***************************************************************************)
(* C25: in an Indentation step with candidate width w and stack top t, if  *)
(* w > t exactly one Indent token is emitted, its value is the consumed    *)
(* run of w spaces, and w is pushed on top of t (the stack grows by one);  *)
(* if w = t no token is emitted and the stack is unchanged.  An Indent and *)
(* a Dedent are never emitted by the same Indentation step.                *)
(***************************************************************************)
C25_IndentPushes ==
  [][\A i \in Insts :
       IsIndentationStep(i) =>
         LET l == lexers[i]
             s == indents[NewArray(i)]
             w == NextLineWidth(l.input, l.pos)
             new == NewTokens(l, lexers'[i])
         IN  /\ w > Last(s) =>
                  /\ new = <<[type |-> "Indent", value |-> Spaces(w)]>>
                  /\ indents'[NewArray(i)] = Append(s, w)
             /\ w = Last(s) =>
                  /\ new = <<>>
                  /\ indents'[NewArray(i)] = s
             /\ ~(/\ \E k \in 1..Len(new) : IsIndent(new[k])
                  /\ \E k \in 1..Len(new) : IsDedent(new[k]))]_vars

\* the entries of stack s that are at most w, in order
KeepUpTo(s, w) == SelectSeq(s, LAMBDA x : x <= w)

(***************************************************************************)
(* C26: in an Indentation step with width w smaller than the stack top and *)
(* w present on the stack, the number of Dedent tokens emitted equals the  *)
(* number of stack entries strictly greater than w, no Illegal token is    *)
(* emitted, and afterwards the stack is the previous stack with exactly    *)
(* those entries removed (top = w).  The stack is the one the lines        *)
(* processed so far have built: a greater width pushed on the widths       *)
(* before it.                                                              *)
(***************************************************************************)
C26_DedentPerPoppedLevel ==
  [][\A i \in Insts :
       IsIndentationStep(i) =>
         LET l == lexers[i]
             s == IndentationStack(LineWidths(l))
             w == NextLineWidth(l.input, l.pos)
             new == NewTokens(l, lexers'[i])
         IN  (/\ s # <<>>
              /\ w < Last(s)
              /\ \E k \in 1..Len(s) : s[k] = w) =>
               /\ Count(new, IsDedent) = Len(s) - Len(KeepUpTo(s, w))
               /\ \A k \in 1..Len(new) : IsDedent(new[k])
               /\ indents'[NewArray(i)] = KeepUpTo(s, w)]_vars

\* the input with its p-th unit, a "\n", turned into two adjacent ones
DuplicateNewline(input, p) ==
  SubSeq(input, 1, p) \o <<"\n">> \o SubSeq(input, p + 1, Len(input))

\* a newline character the scanner has passed is a Newline token of one
\* character or lies in ignored text
C27_NewlinesTokenOrIgnored ==
  \A i \in Insts :
    LET l == lexers[i]
    IN  \A p \in 1..Len(l.input) :
          (Resolved(l, p) /\ l.input[p] \in {"\n", "\r"}) =>
            \E k \in 1..Len(l.log) :
              /\ l.log[k].start < p /\ p <= l.log[k].pos
              /\ \/ l.log[k].op = "ignore"
                 \/ /\ l.log[k].op = "emit"
                    /\ l.log[k].tok = [type |-> "Newline", value |-> <<l.input[p]>>]
                    /\ l.log[k].pos = p

(***************************************************************************)
(* C27: fully blank lines do not affect the token stream.  A run of        *)
(* newline characters at the start of the input or directly after a        *)
(* Newline token is discarded by the Indentation step with no token and no *)
(* change to the indentation stack, so duplicating any "\n" of an input    *)
(* leaves the token sequence unchanged.                                    *)
(***************************************************************************)
C27_BlankLinesChangeNothing ==
  /\ [](C27_NewlinesTokenOrIgnored
        /\ \A i \in Insts :
             pc[i] # "run" =>
               \A p \in 1..Len(lexers[i].input) :
                 lexers[i].input[p] = "\n" =>
                   AloneTokens(DuplicateNewline(lexers[i].input, p)) = out[i])
  /\ [][\A i \in Insts :
          IsIndentationStep(i) =>
            LET l == lexers[i]
                q == RunEnd(l.input, l.pos, <<"\n", "\r">>)
                new == NewTokens(l, lexers'[i])
            IN  /\ \A k \in 1..Len(new) : new[k].type \in {"Indent", "Dedent"}
                \* the newline run is ignored, the spaces after it pending
                /\ lexers'[i].pos = RunEnd(l.input, q, <<" ">>)
                /\ lexers'[i].start \in {q, lexers'[i].pos}
                \* a blank line followed by a line of the same width
                /\ lexers'[i].pos - q = Last(indents[NewArray(i)]) =>
                     /\ new = <<>>
                     /\ indents'[NewArray(i)] = indents[NewArray(i)]]_vars

\* a stream with a fully blank line in the input has been returned
C27_Witness ==
  \E i \in Insts :
    /\ pc[i] = "done"
    /\ Len(out[i]) >= 4
    /\ \E p \in 1..(Len(lexers[i].input) - 2) :
         /\ lexers[i].input[p] = "\n"
         /\ lexers[i].input[p + 1] = "\n"
         /\ lexers[i].input[p + 2] = "a"

(***************************************************************************)
(* C28: two-character operators use maximal munch with one code point of   *)
(* lookahead.  '=' immediately followed by '=' is always emitted as one EQ *)
(* token with value "==" (never two Assign tokens); '=' followed by        *)
(* anything else or by the end of input is emitted as Assign with value    *)
(* "=", the lookahead character left unconsumed (pos advanced by exactly   *)
(* one).                                                                   *)
(***************************************************************************)
C28_EqualMaximalMunch ==
  /\ [](\A i \in Insts :
          LET es == Emits(lexers[i].log)
          IN  \A k \in 1..Len(es) :
                es[k].tok.type = "Assign" =>
                  \* no Assign is half of a "=="
                  /\ ~UnitAt(lexers[i].input, es[k].pos, "=")
                  /\ ~(k > 1 /\ es[k - 1].tok.type = "Assign"
                             /\ es[k - 1].pos = es[k].start))
  /\ [][\A i \in Insts :
          LET l == lexers[i]
              p == RunEnd(l.input, l.pos, <<" ">>)
              new == NewTokens(l, lexers'[i])
          IN  (IsInvoke(i) /\ l.state = "lexExpression" /\ UnitAt(l.input, p, "=")) =>
                /\ lexers'[i].state = "lexExpression"
                /\ lexers'[i].start = lexers'[i].pos
                /\ IF UnitAt(l.input, p + 1, "=")
                   THEN /\ new = <<[type |-> "EQ", value |-> <<"=", "=">>]>>
                        /\ lexers'[i].pos = p + 2
                   ELSE /\ new = <<[type |-> "Assign", value |-> <<"=">>]>>
                        /\ lexers'[i].pos = p + 1]_vars

\* "==" returned as EQ and a later '=' before another character as Assign
C28_Witness ==
  \E i \in Insts :
    /\ \E k \in 1..Len(out[i]) : out[i][k] = [type |-> "EQ", value |-> <<"=", "=">>]
    /\ \E k \in 1..Len(out[i]) : out[i][k] = [type |-> "Assign", value |-> <<"=">>]
    /\ Len(lexers[i].input) <= MaxLen
    /\ pc[i] = "done"

\* the code point that starts at cursor p: a surrogate pair is one code
\* point of two units
WholeCodePoint(input, p) ==
  IF /\ p + 2 <= Len(input)
     /\ input[p + 1] \in HighSurrogates
     /\ input[p + 2] \in LowSurrogates
  THEN <<input[p + 1], input[p + 2]>>
  ELSE <<input[p + 1]>>

\* n is scanner l after nextChar, b is n after backUp
NextCharContract(l, n, b) ==
  IF l.pos >= Len(l.input)
  THEN /\ n.char = eof
       /\ n.pos = l.pos
       /\ b.pos = l.pos
  ELSE /\ n.char = WholeCodePoint(l.input, l.pos)
       /\ n.pos = l.pos + Len(n.char)
       /\ n.width = Len(n.char)
       /\ b.pos = l.pos

\* the step is a nextChar of the closure variant (a call of nextChar, or of
\* accept when it accepts): the contract holds of it
C29_ClosureVariant ==
  [][\A i \in Insts :
       (/\ pc[i] \in CoreLive
        /\ pc'[i] = "read"
        /\ lexers'[i].log = lexers[i].log) =>
         NextCharContract(lexers[i], lexers'[i], backUp(lexers'[i]))]_vars

(***************************************************************************)
(* C29: nextChar returns one whole code point and advances pos by that     *)
(* code point's width in string units (2 for a surrogate pair), and a      *)
(* backUp immediately after it restores pos exactly to its value before    *)
(* the nextChar; at the end of input nextChar returns the sentinel, leaves *)
(* pos unchanged, and the following backUp also leaves pos unchanged.      *)
(* Stated for both variants of the core in lex.ts.                         *)
(***************************************************************************)
C29_NextCharThenBackUp ==
  /\ C29_ClosureVariant
  /\ [][\A i \in Insts :
          (pc[i] \in ClassLive /\ pc'[i] = "classRead") =>
            NextCharContract(lexers[i], lexers'[i], LexerBackUp(lexers'[i]))]_vars

(***************************************************************************)
(* C30: peek is non-destructive.  It leaves start, pos and the token queue *)
(* unchanged (only the recorded width may change), the code point it       *)
(* returns is the one the next nextChar returns, and at the end of input   *)
(* it returns the sentinel.  Checked of a peek in every state a NadderLexer*)
(* or a client of the core reaches with its backUp calls in order.         *)
(***************************************************************************)
C30_PeekIsNonDestructive ==
  \A i \in Insts :
    pc[i] \in CoreLive \cup {"run"} =>
      LET l == lexers[i]
          p == peek(l)
      IN  /\ p.start = l.start
          /\ p.pos = l.pos
          /\ p.tokens = l.tokens
          /\ p.log = l.log
          /\ p.input = l.input
          /\ p.state = l.state
          /\ p.char = nextChar(p).char
          /\ IF l.pos >= Len(l.input)
             THEN p.char = eof /\ p.width = 0
             ELSE p.char = WholeCodePoint(l.input, l.pos) /\ p.width = Len(p.char)

\* a client has peeked at a two-unit code point after emitting a token
C30_Witness ==
  \E i \in Insts :
    /\ pc[i] = "backed"
    /\ lexers[i].char = <<"hi", "lo">>
    /\ lexers[i].width = 2
    /\ lexers[i].pos = 0
    /\ lexers[i].start = 0
    /\ Len(lexers[i].tokens) = 1

\* the code points of string s: a surrogate pair is one code point
CodePointsOf(s) ==
  {WholeCodePoint(s, p) :
     p \in {q \in 0..(Len(s) - 1) :
              ~(q >= 1 /\ s[q] \in HighSurrogates /\ s[q + 1] \in LowSurrogates)}}

\* the code point at cursor p of the input is a member of the set valid
NextIsMember(input, p, valid) ==
  p < Len(input) /\ WholeCodePoint(input, p) \in CodePointsOf(valid)

\* the cursor after the maximal run of code points of valid from cursor p
RECURSIVE CodePointRunEnd(_, _, _)
CodePointRunEnd(input, p, valid) ==
  IF NextIsMember(input, p, valid)
  THEN CodePointRunEnd(input, p + Len(WholeCodePoint(input, p)), valid)
  ELSE p

\* accept(valid) on scanner l: true and one code point further iff the next
\* code point is a member of valid, else false and the cursor where it was
AcceptContract(l, valid) ==
  LET a == accept(l, valid)
  IN  /\ a.ok = NextIsMember(l.input, l.pos, valid)
      /\ a.pos = IF a.ok
                 THEN l.pos + Len(WholeCodePoint(l.input, l.pos))
                 ELSE l.pos
      /\ a.start = l.start /\ a.tokens = l.tokens

\* acceptRun(valid) on scanner l returns, with the cursor at the end of the
\* maximal run of code points of valid
AcceptRunContract(l, valid) ==
  LET r == acceptRunLoop(l, valid)
  IN  /\ ~r.ok
      /\ r.pos = CodePointRunEnd(l.input, l.pos, valid)
      /\ r.start = l.start /\ r.tokens = l.tokens

(***************************************************************************)
(* C31: accept(set) advances pos by exactly one code point and returns     *)
(* true iff the next code point is a member of set, otherwise it returns   *)
(* false with pos unchanged (also at the end of input); acceptRun(set)     *)
(* terminates and stops at the first position whose code point is not in   *)
(* set or at the end of input, every code point it skipped being in set.   *)
(* Stated of a call in every state a NadderLexer or a client of the core   *)
(* reaches with its backUp calls in order, for every set of CoreValid.     *)
(***************************************************************************)
C31_AcceptAndAcceptRun ==
  \A i \in Insts :
    pc[i] \in CoreLive \cup {"run"} =>
      \A valid \in CoreValid :
        /\ AcceptContract(lexers[i], valid)
        /\ AcceptRunContract(lexers[i], valid)

\* the same for the sets that hold neither U+FFFF nor a two-unit code
\* point, the only sets a NadderLexer passes
C31_PlainSets ==
  \A i \in Insts :
    pc[i] \in CoreLive \cup {"run"} =>
      \A valid \in {v \in CoreValid :
                      \A k \in 1..Len(v) :
                        v[k] \notin {"ffff"} \cup HighSurrogates \cup LowSurrogates} :
        /\ AcceptContract(lexers[i], valid)
        /\ AcceptRunContract(lexers[i], valid)

\* the last token of news is of one of the types
EndsIn(news, types) == news # <<>> /\ Last(news).type \in types

\* the transitions of the table of the grammar, as the claim reads it: from
\* state function from to the returned state to, news being the tokens the
\* invocation pushed
TableTransition(from, to, news) ==
  CASE from = "lexIndentation" -> to = "lexExpression"
    [] from \in {"lexIdentifier", "lexNumber"} -> to = "lexExpression"
    [] from = "lexExpression" ->
         \/ to \in {"lexExpression", "lexIdentifier", "lexNumber"}
         \/ to = "lexIndentation" /\ EndsIn(news, {"Newline"})
         \/ to = "undefined" /\ EndsIn(news, {"EOF", "Illegal"})
    [] OTHER -> FALSE

\* the transitions of the state functions: those of the table, and Number
\* to Terminal with the Illegal token of a bad number
CodeTransition(from, to, news) ==
  \/ TableTransition(from, to, news)
  \/ /\ from = "lexNumber"
     /\ to = "undefined"
     /\ Len(news) = 1
     /\ news[1].type = "Illegal"
     /\ news[1].value[1] = "bad number syntax: '"

\* once Terminal, always Terminal
TerminalIsAbsorbing ==
  \A i \in Insts :
    (pc[i] \in {"run", "done", "thrown"} /\ lexers[i].state = "undefined") =>
      lexers'[i].state = "undefined"

(***************************************************************************)
(* C32 as stated: the grammar's state transitions are exactly those of the *)
(* transition table.  Indentation goes only to Expression; Identifier and  *)
(* Number go only to Expression; Terminal is entered only from Expression  *)
(* (on end of input or an illegal character); Expression goes to           *)
(* Indentation only after emitting a Newline; and Terminal is absorbing.   *)
(***************************************************************************)
C32_TableTransitionsOnly ==
  [][/\ TerminalIsAbsorbing
     /\ \A i \in Insts :
          IsInvoke(i) =>
            TableTransition(lexers[i].state, lexers'[i].state,
                            NewTokens(lexers[i], lexers'[i]))]_vars

(***************************************************************************)
(* C32 amended: the transitions are those of the table and one more,       *)
(* Number to Terminal.  Indentation and Identifier go only to Expression;  *)
(* Number goes to Expression, or to Terminal when it pushes the Illegal    *)
(* token of a bad number; Terminal is entered only from Expression or      *)
(* Number and only by an invocation whose last token is EOF or Illegal;    *)
(* Expression goes to Indentation only after emitting a Newline; and       *)
(* Terminal is absorbing.                                                  *)
(***************************************************************************)
C32_Transitions ==
  [][/\ TerminalIsAbsorbing
     /\ \A i \in Insts :
          IsInvoke(i) =>
            /\ CodeTransition(lexers[i].state, lexers'[i].state,
                              NewTokens(lexers[i], lexers'[i]))
            /\ lexers'[i].state = "undefined" =>
                 /\ lexers[i].state \in {"lexExpression", "lexNumber"}
                 /\ EndsIn(NewTokens(lexers[i], lexers'[i]),
                           {"EOF", "Illegal"})]_vars

\* an indented line went through Indentation, Expression and Number, and
\* Number made the machine Terminal
C32_Witness ==
  \E i \in Insts :
    /\ pc[i] = "run"
    /\ lexers[i].state = "undefined"
    /\ Len(Pushed(i)) = 2
    /\ Pushed(i)[1].type = "Indent"
    /\ Pushed(i)[2].type = "Illegal"
    /\ Pushed(i)[2].value[1] = "bad number syntax: '"

\* the last thing scanner l did was to emit a Newline token
JustEmittedNewline(l) ==
  /\ l.log # <<>>
  /\ Last(l.log).op = "emit"
  /\ Last(l.log).tok.type = "Newline"

\* Indentation is the state to run next exactly at the start of the input
\* and right after a Newline token
IndentationIsNext ==
  \A i \in Insts :
    lexers[i].state = "lexIndentation" <=>
      (lexers[i].log = <<>> \/ JustEmittedNewline(lexers[i]))

\* where Indent and Dedent tokens stand in the stream
IndentsFollowNewlines ==
  \A i \in Insts :
    LET ts == Pushed(i)
    IN  /\ \A k \in 1..Len(ts) :
             ts[k].type \in {"Indent", "Dedent"} =>
               \/ k = 1
               \/ ts[k - 1].type = "Newline"
               \/ ts[k - 1].type = "Dedent"
        /\ \A k, m \in 1..Len(ts) :
             (k < m /\ ts[k].type = "Indent" /\ ts[m].type = "Indent") =>
               \E j \in (k + 1)..(m - 1) : ts[j].type = "Newline"

(***************************************************************************)
(* C33: the Indentation state runs exactly once at the start of input and  *)
(* once immediately after every Newline token, and nowhere else;           *)
(* consequently every Indent or Dedent token in the stream is either at    *)
(* the start of the stream or directly preceded by a Newline token or by   *)
(* another Dedent token, and at most one Indent is emitted per line.       *)
(***************************************************************************)
C33_IndentationAfterNewline ==
  /\ [](IndentationIsNext /\ IndentsFollowNewlines)
  /\ [][\A i \in Insts :
          IsInvoke(i) =>
            LET news == NewTokens(lexers[i], lexers'[i])
            IN  /\ lexers[i].state = "lexIndentation" =>
                     /\ lexers'[i].state = "lexExpression"
                     /\ Count(news, IsIndent) <= 1
                     /\ \A k \in 1..Len(news) :
                          news[k].type \in {"Indent", "Dedent"}
                /\ lexers[i].state # "lexIndentation" =>
                     \A k \in 1..Len(news) :
                       news[k].type \notin {"Indent", "Dedent"}]_vars

\* a stream with an Indent after a Newline and a Dedent after a later one
C33_Witness ==
  \E i \in Insts :
    /\ pc[i] = "done"
    /\ LET ts == out[i]
       IN  \E k, m \in 2..Len(ts) :
             /\ k < m
             /\ ts[k].type = "Indent" /\ ts[k - 1].type = "Newline"
             /\ ts[m].type = "Dedent" /\ ts[m - 1].type = "Newline"

\* the lines of a text: the runs between its newline characters
RECURSIVE SplitLines(_)
SplitLines(text) ==
  LET ends == {k \in 1..Len(text) : text[k] = "\n"}
  IN  IF ends = {}
      THEN <<text>>
      ELSE LET k == CHOOSE e \in ends : \A f \in ends : e <= f
           IN  <<SubSeq(text, 1, k - 1)>>
                 \o SplitLines(SubSeq(text, k + 1, Len(text)))

NonEmpty(ss) == SelectSeq(ss, LAMBDA x : x # <<>>)

\* the line's first token is Indent or its last token is Colon
FirstIndentOrLastColon(tokens) ==
  /\ tokens # <<>>
  /\ \/ tokens[1].type = "Indent"
     \/ Last(tokens).type = "Colon"

\* the step is a line event
IsLineEvent == Len(repl'.lines) = Len(repl.lines) + 1

(***************************************************************************)
(* C34: on each line event, if the line's first token is Indent or its     *)
(* last token is Colon the front-end does not evaluate; it appends the     *)
(* line to the buffer and selects the secondary prompt.  Otherwise it      *)
(* evaluates the buffer followed by the line, then resets the buffer to    *)
(* empty and selects the primary prompt.  Every line received since the    *)
(* last evaluation appears in the evaluated text, in arrival order,        *)
(* exactly once.                                                           *)
(***************************************************************************)
C34_LineEvent ==
  [][IsLineEvent =>
       LET line == Last(repl'.lines)
       IN  IF FirstIndentOrLastColon(tokenize(line))
           THEN /\ repl'.evaluated = repl.evaluated
                /\ repl'.output = Append(repl.output, secondaryPrompt)
                /\ IsPrefix(repl.prevLines, repl'.prevLines)
                /\ NonEmpty(SplitLines(repl'.prevLines)) =
                     Append(NonEmpty(SplitLines(repl.prevLines)), line)
                /\ repl'.prompt = secondaryPrompt
           ELSE LET text == repl.prevLines \o line \o <<"\n">>
                IN  /\ repl'.evaluated =
                         Append(repl.evaluated,
                                [text |-> text,
                                 lines |-> Append(repl.received, line)])
                    /\ repl'.output =
                         repl.output \o <<print(tokenize(text)), primaryPrompt>>
                    /\ NonEmpty(SplitLines(text)) =
                         NonEmpty(Append(repl.received, line))
                    /\ repl'.prevLines = <<>>
                    /\ repl'.prompt = primaryPrompt]_vars

\* a block header and an indented line were buffered and a third line made
\* the front-end evaluate the three
C34_Witness ==
  /\ repl.prompt = primaryPrompt
  /\ repl.prevLines = <<>>
  /\ Len(repl.evaluated) = 1
  /\ repl.evaluated[1].lines = <<<<"a", ":">>, <<" ", "a">>, <<"a">>>>
  /\ repl.evaluated[1].text =
       <<"a", ":", "\n", "\n", " ", "a", "\n", "\n", "a", "\n">>

\* Indent tokens not yet closed by a Dedent token
Balance(tokens) == Count(tokens, IsIndent) - Count(tokens, IsDedent)

\* the tokens without the Newline tokens that end the lines
WithoutNewlines(tokens) == SelectSeq(tokens, LAMBDA tok : tok.type # "Newline")

\* the decision taken from the tokens of the whole buffered text: every
\* Indent has its Dedent and the trailing token is not a Colon
WholeBufferIsComplete(text) ==
  LET tokens == tokenize(text)
      body == WithoutNewlines(tokens)
  IN  /\ Balance(tokens) = 0
      /\ body # <<>> => Last(body).type # "Colon"

(***************************************************************************)
(* C35: the decision whether buffered input is complete is made by         *)
(* re-tokenizing the whole accumulated buffer (all lines since the last    *)
(* evaluation) and using its running Indent/Dedent balance and trailing    *)
(* token, not by inspecting only the most recently received line: a line   *)
(* event evaluates exactly when the tokens of the buffer followed by the   *)
(* line are balanced and do not end in a Colon.                            *)
(***************************************************************************)
C35_WholeBufferDecides ==
  [][IsLineEvent =>
       LET line == Last(repl'.lines)
           text == repl.prevLines \o line \o <<"\n">>
       IN  (Len(repl'.evaluated) = Len(repl.evaluated) + 1)
             <=> WholeBufferIsComplete(text)]_vars

\* the decision is the same whatever has been buffered: it is a function of
\* the received line alone
C35_LastLineDecides ==
  [][IsLineEvent =>
       ((Len(repl'.evaluated) = Len(repl.evaluated) + 1)
          <=> ~FirstIndentOrLastColon(tokenize(Last(repl'.lines))))]_vars
====
